---- MODULE Spec2Model ----
(***************************************************************************)
(* Rule engines of the two card games of the repository:                   *)
(*   Blackjack/blackjack.py  - Hand, BlackjackController, BlackjackView    *)
(*   Solitaire/solitaire.py  - Solitaire (Golf solitaire)                  *)
(* A card of the Blackjack game is modelled by its value string (its suit  *)
(* and code play no part in the rules); a card of the Solitaire game is a  *)
(* <<rank, suit>> pair.                                                    *)
(***************************************************************************)
EXTENDS Integers, Sequences, FiniteSets, TLC

VARIABLES
    player_hand,    \* BlackjackController.player_hand : Hand
    dealer_hand,    \* BlackjackController.dealer_hand : Hand
    deck,           \* cards left in the remote deck, per value
    pc,             \* position inside BlackjackController.__init__
    won_calls,      \* number of calls of view.player_won
    lost_calls,     \* number of calls of view.player_lost
    asks,           \* number of calls of view.ask_next_move
    display,        \* what the last call of view.display_state printed
    columns,        \* Solitaire.columns
    cards_in_column,\* Solitaire.cards_in_column
    tableau,        \* Solitaire.tableau : list of columns, each a list of cards
    waste,          \* Solitaire.waste : list of cards, the last one on top
    stock,          \* Solitaire.stock : list of cards, dealt from the end
    command,        \* the local variable command of Solitaire.play
    result          \* how Solitaire.play ended, "none" while it runs

bjvars == <<player_hand, dealer_hand, deck, pc, won_calls, lost_calls, asks, display>>

solvars == <<columns, cards_in_column, tableau, waste, stock, command, result>>

vars == <<bjvars, solvars>>

(***************************************************************************)
(* Bounds of the model.                                                    *)
(***************************************************************************)
\* how many of the thirteen card values the modelled deck holds
NumValues == 4
\* how many cards a free-standing hand receives
MaxCards == 4
\* how many cuts of the deck the modelled shuffles make
NumCuts == 13
\* how many of the strides the modelled shuffles use
NumStrides == 2
\* the largest values of Solitaire.columns and Solitaire.cards_in_column
\* for which the setup alone is explored
MaxColumns == 7
MaxCardsInColumn == 5

(***************************************************************************)
(* Blackjack: cards and the deck.                                          *)
(***************************************************************************)
\* The thirteen values of the deck API, the ones kept by NumValues first.
AllValues ==
    <<"ACE", "KING", "9", "2", "10", "6", "QUEEN", "5", "JACK", "3", "4", "7", "8">>

Values == {AllValues[i] : i \in 1..Len(AllValues)}

DeckValues == {AllValues[i] : i \in 1..NumValues}

\* A deck holds every value once per suit.
CopiesPerValue == 4

\* a table in which the ace counts 1 from the start
card_values_hard_ace ==
    ("2" :> 2) @@ ("3" :> 3) @@ ("4" :> 4) @@ ("5" :> 5) @@ ("6" :> 6) @@
    ("7" :> 7) @@ ("8" :> 8) @@ ("9" :> 9) @@ ("10" :> 10) @@ ("JACK" :> 10) @@
    ("QUEEN" :> 10) @@ ("KING" :> 10) @@ ("ACE" :> 1)

card_values ==
    ("2" :> 2) @@ ("3" :> 3) @@ ("4" :> 4) @@ ("5" :> 5) @@ ("6" :> 6) @@
    ("7" :> 7) @@ ("8" :> 8) @@ ("9" :> 9) @@ ("10" :> 10) @@ ("JACK" :> 10) @@
    ("QUEEN" :> 10) @@ ("KING" :> 10) @@ ("ACE" :> 11)

\* Deck.__init__ / Deck.shuffle: a full deck; the shuffle makes the order of
\* the draws arbitrary, so the deck is kept as the number of cards left of
\* each value and Deck.draw picks any value that is left.
NewDeck == [v \in DeckValues |-> CopiesPerValue]

CanDraw(d, v) == v \in DOMAIN d /\ d[v] > 0

Draw(d, v) == [d EXCEPT ![v] = @ - 1]

(***************************************************************************)
(* Blackjack: Hand.                                                        *)
(***************************************************************************)
NewHand == [score |-> 0, cards |-> <<>>, aces |-> 0]

\* the loop with its threshold off by one
RECURSIVE SoftenAcesAbove22(_, _)
SoftenAcesAbove22(score, aces) ==
    IF score > 22 /\ aces > 0
    THEN SoftenAcesAbove22(score - 10, aces - 1)
    ELSE <<score, aces>>

\* the loop of lines 38-40: one soft ace becomes hard per iteration
RECURSIVE SoftenAces(_, _)
SoftenAces(score, aces) ==
    IF score > 21 /\ aces > 0
    THEN SoftenAces(score - 10, aces - 1)
    ELSE <<score, aces>>

\* an ace that is never recognised
CountNoAce(aces, value) == aces

\* lines 34-35
CountAce(aces, value) == IF value = "ACE" THEN aces + 1 ELSE aces

add_card(hand, value) ==
    LET aces == CountAce(hand.aces, value)
        score == hand.score + card_values[value]
        soft == SoftenAces(score, aces)
    IN  [score |-> soft[1], cards |-> Append(hand.cards, value), aces |-> soft[2]]

(***************************************************************************)
(* Blackjack: BlackjackView.                                               *)
(***************************************************************************)
\* all elements of s but the last (Python s[:-1], also for the empty list)
AllButLast(s) == IF Len(s) = 0 THEN <<>> ELSE SubSeq(s, 1, Len(s) - 1)

\* a display that hides every dealer card but the last
display_state_last_shown(dealer, player, final) ==
    [final |-> final,
     dealer_score |-> IF final THEN dealer.score ELSE -1,
     dealer_cards |-> IF final THEN dealer.cards
                      ELSE [i \in 1..(Len(dealer.cards) - 1) |-> "??"]
                           \o <<dealer.cards[Len(dealer.cards)]>>,
     player_score |-> player.score,
     player_cards |-> player.cards]

\* lines 155-171; the dealer's score printed as "??" is kept as -1
display_state(dealer, player, final) ==
    [final |-> final,
     dealer_score |-> IF final THEN dealer.score ELSE -1,
     dealer_cards |-> IF final THEN dealer.cards
                      ELSE Append(AllButLast(dealer.cards), "??"),
     player_score |-> player.score,
     player_cards |-> player.cards]

NoDisplay ==
    [final |-> FALSE, dealer_score |-> -1, dealer_cards |-> <<>>,
     player_score |-> 0, player_cards |-> <<>>]

(***************************************************************************)
(* Blackjack: BlackjackController.__init__, one action per step.           *)
(***************************************************************************)
\* view.player_won(state) followed by return
PlayerWon ==
    /\ won_calls' = won_calls + 1
    /\ lost_calls' = lost_calls
    /\ display' = display_state(dealer_hand', player_hand', TRUE)
    /\ pc' = "done"

\* view.player_lost(state) followed by return
PlayerLost ==
    /\ lost_calls' = lost_calls + 1
    /\ won_calls' = won_calls
    /\ display' = display_state(dealer_hand', player_hand', TRUE)
    /\ pc' = "done"

\* a test that two cards can never pass
IsOver21(hand) == hand.score > 21

\* line 79: the test for a blackjack right after the deal
IsBlackjack(hand) == hand.score = 21

\* lines 73-81: shuffle, two empty hands, the first four cards (player,
\* dealer, player, dealer), and the immediate win on a player 21
Setup ==
    /\ pc = "setup"
    /\ \E c1, c2, c3, c4 \in DeckValues :
         LET d1 == Draw(deck, c1)
             d2 == Draw(d1, c2)
             d3 == Draw(d2, c3)
         IN  /\ CanDraw(deck, c1) /\ CanDraw(d1, c2)
             /\ CanDraw(d2, c3) /\ CanDraw(d3, c4)
             /\ deck' = Draw(d3, c4)
             /\ player_hand' = add_card(add_card(NewHand, c1), c3)
             /\ dealer_hand' = add_card(add_card(NewHand, c2), c4)
    /\ UNCHANGED <<asks, solvars>>
    /\ IF IsBlackjack(player_hand')
       THEN PlayerWon
       ELSE /\ pc' = "player_moves"
            /\ UNCHANGED <<won_calls, lost_calls, display>>

\* a player who is still asked at 21
PlayerMayMoveAt21(hand) == hand.score <= 21

\* line 104: the player may be asked for a move
PlayerMayMove(hand) == hand.score < 21

\* lines 104-105, answer "H": the state is shown, the player takes a card
PlayerHit ==
    /\ pc = "player_moves"
    /\ PlayerMayMove(player_hand)
    /\ asks' = asks + 1
    /\ display' = display_state(dealer_hand, player_hand, FALSE)
    /\ \E c \in DeckValues :
         /\ CanDraw(deck, c)
         /\ deck' = Draw(deck, c)
         /\ player_hand' = add_card(player_hand, c)
    /\ UNCHANGED <<dealer_hand, pc, won_calls, lost_calls, solvars>>

\* line 104, answer "S": the state is shown, the loop ends
PlayerStand ==
    /\ pc = "player_moves"
    /\ PlayerMayMove(player_hand)
    /\ asks' = asks + 1
    /\ display' = display_state(dealer_hand, player_hand, FALSE)
    /\ pc' = "player_done"
    /\ UNCHANGED <<player_hand, dealer_hand, deck, won_calls, lost_calls, solvars>>

\* line 104: at 21 or more the loop ends without a question
PlayerStop ==
    /\ pc = "player_moves"
    /\ ~PlayerMayMove(player_hand)
    /\ pc' = "player_done"
    /\ UNCHANGED <<player_hand, dealer_hand, deck, won_calls, lost_calls, asks, display, solvars>>

\* the player's bust test with the dealer's threshold
PlayerLosesAbove22(player, dealer) == player.score > 22 \/ dealer.score = 21

\* line 86
PlayerLoses(player, dealer) == player.score > 21 \/ dealer.score = 21

\* lines 83-88: the verdict after the player's turn
CheckPlayer ==
    /\ pc = "player_done"
    /\ UNCHANGED <<player_hand, dealer_hand, deck, asks, solvars>>
    /\ IF player_hand.score = 21
       THEN PlayerWon
       ELSE IF PlayerLoses(player_hand, dealer_hand)
            THEN PlayerLost
            ELSE /\ pc' = "dealer_moves"
                 /\ UNCHANGED <<won_calls, lost_calls, display>>

\* a dealer who also draws on a tie
DealerMustDrawOnTie(dealer, player) == dealer.score <= player.score

\* line 109
DealerMustDraw(dealer, player) == dealer.score < player.score

\* lines 109-110: the dealer takes a card
DealerDraw ==
    /\ pc = "dealer_moves"
    /\ DealerMustDraw(dealer_hand, player_hand)
    /\ \E c \in DeckValues :
         /\ CanDraw(deck, c)
         /\ deck' = Draw(deck, c)
         /\ dealer_hand' = add_card(dealer_hand, c)
    /\ UNCHANGED <<player_hand, pc, won_calls, lost_calls, asks, display, solvars>>

\* the dealer's bust test with the usual threshold
DealerBustAbove21(dealer) == dealer.score > 21

\* line 90
DealerBust(dealer) == dealer.score > 22

\* line 93
DealerHigher(dealer, player) == dealer.score > player.score

\* lines 109, 90-94: the dealer's loop ends and the last verdict is given; when
\* neither test holds the constructor returns without calling the view
CheckDealer ==
    /\ pc = "dealer_moves"
    /\ ~DealerMustDraw(dealer_hand, player_hand)
    /\ UNCHANGED <<player_hand, dealer_hand, deck, asks, solvars>>
    /\ IF DealerBust(dealer_hand)
       THEN PlayerWon
       ELSE IF DealerHigher(dealer_hand, player_hand)
            THEN PlayerLost
            ELSE /\ pc' = "done"
                 /\ UNCHANGED <<won_calls, lost_calls, display>>

\* no Solitaire object exists
NoSolitaire ==
    /\ columns = 0
    /\ cards_in_column = 0
    /\ tableau = <<>>
    /\ waste = <<>>
    /\ stock = <<>>
    /\ command = ""
    /\ result = "none"

InitBlackjack ==
    /\ player_hand = NewHand
    /\ dealer_hand = NewHand
    /\ deck = NewDeck
    /\ pc = "setup"
    /\ won_calls = 0
    /\ lost_calls = 0
    /\ asks = 0
    /\ display = NoDisplay
    /\ NoSolitaire

NextBlackjack ==
    \/ Setup
    \/ PlayerHit
    \/ PlayerStand
    \/ PlayerStop
    \/ CheckPlayer
    \/ DealerDraw
    \/ CheckDealer

SpecBlackjack == InitBlackjack /\ [][NextBlackjack]_vars

(***************************************************************************)
(* A free-standing Hand that receives any cards, in any order.             *)
(***************************************************************************)
HandAddCard ==
    /\ pc = "hand"
    /\ Len(player_hand.cards) < MaxCards
    /\ \E v \in Values : player_hand' = add_card(player_hand, v)
    /\ UNCHANGED <<dealer_hand, deck, pc, won_calls, lost_calls, asks, display, solvars>>

InitHand ==
    /\ player_hand = NewHand
    /\ dealer_hand = NewHand
    /\ deck = NewDeck
    /\ pc = "hand"
    /\ won_calls = 0
    /\ lost_calls = 0
    /\ asks = 0
    /\ display = NoDisplay
    /\ NoSolitaire

NextHand == HandAddCard

SpecHand == InitHand /\ [][NextHand]_vars

(***************************************************************************)
(* Solitaire: the cards module (Card, Deck), which solitaire.py imports.   *)
(***************************************************************************)
\* ranks run from 1 (Ace) to 13 (King), in each of four suits
NumRanks == 13

NumSuits == 4

\* the k-th card of a new deck, k from 0
Card(k) == [rank |-> (k % NumRanks) + 1, suit |-> (k \div NumRanks) + 1]

DeckSize == NumRanks * NumSuits

\* Deck(): the cards of a new deck
FullDeck == {Card(k) : k \in 0..(DeckSize - 1)}

\* the strides of the modelled shuffles, each coprime to the deck size
Strides == <<1, 11, 5, 3, 7, 9>>

\* Deck.shuffle_deck: the deck cut at `cut` and taken every `stride`-th card;
\* successive calls of deal_card() return the elements in order
ShuffledDeck(stride, cut) ==
    [p \in 1..DeckSize |-> Card((stride * (p - 1) + cut) % DeckSize)]

(***************************************************************************)
(* Solitaire: the Solitaire class.                                         *)
(***************************************************************************)
\* line 39: the cards left for the stock once the waste has its card
StockBase == 51

\* the values of Solitaire.columns and Solitaire.cards_in_column explored
Configs == {<<1, 1>>, <<1, 2>>, <<2, 1>>}

Abs(x) == IF x < 0 THEN -x ELSE x

Last(s) == s[Len(s)]

\* Python del s[-1]
DelLast(s) == SubSeq(s, 1, Len(s) - 1)

\* lines 29-40: Solitaire.__init__ on the shuffled deck d
SetupTableau(d, c, n) == [i \in 1..c |-> SubSeq(d, (i - 1) * n + 1, i * n)]

\* a setup that turns no card over to start the waste
SetupWasteNone(d, c, n) == <<>>

\* line 38
SetupWaste(d, c, n) == <<d[c * n + 1]>>

\* a stock that is one card short
SetupStockShort(d, c, n) == SubSeq(d, c * n + 2, c * n + (StockBase - c * n))

SetupStock(d, c, n) == SubSeq(d, c * n + 2, c * n + 1 + (StockBase - c * n))

\* adjacency that wraps around from King to Ace
can_move_cyclic(card) ==
    \E i \in 1..Len(tableau) :
        /\ Len(tableau[i]) > 0
        /\ Last(tableau[i]) = card
        /\ Abs(Last(waste).rank - card.rank) \in {1, NumRanks - 1}

\* lines 51-54
can_move(card) ==
    \E i \in 1..Len(tableau) :
        /\ Len(tableau[i]) > 0
        /\ Last(tableau[i]) = card
        /\ Abs(Last(waste).rank - card.rank) = 1

\* a win as soon as one column is empty
has_won_one_empty == \E i \in 1..Len(tableau) : ~(Len(tableau[i]) > 0)

\* lines 78-81
has_won == \A i \in 1..Len(tableau) : ~(Len(tableau[i]) > 0)

\* lines 89-93: "True", "False", or "None" when the function falls off its end
has_lost ==
    IF stock = <<>>
    THEN IF \E i \in 1..Len(tableau) : Len(tableau[i]) > 0 /\ can_move(Last(tableau[i]))
         THEN "False"
         ELSE "True"
    ELSE "None"

\* a move that forgets to take the card off its column
MoveCardKeep(col) ==
    /\ pc = "solitaire"
    /\ col \in 0..(columns - 1)
    /\ Len(tableau[col + 1]) > 0
    /\ waste' = Append(waste, Last(tableau[col + 1]))
    /\ UNCHANGED <<tableau, stock, columns, cards_in_column, command, result, bjvars>>

\* lines 63-64: move_card(col), for a column that holds a card
MoveCard(col) ==
    /\ pc = "solitaire"
    /\ col \in 0..(columns - 1)
    /\ Len(tableau[col + 1]) > 0
    /\ waste' = Append(waste, Last(tableau[col + 1]))
    /\ tableau' = [tableau EXCEPT ![col + 1] = DelLast(@)]
    /\ UNCHANGED <<stock, columns, cards_in_column, command, result, bjvars>>

\* a deal that takes the first card of the stock
DealFromStockFirst ==
    /\ pc = "solitaire"
    /\ IF stock # <<>>
       THEN /\ waste' = Append(waste, Head(stock))
            /\ stock' = Tail(stock)
       ELSE UNCHANGED <<waste, stock>>
    /\ UNCHANGED <<tableau, columns, cards_in_column, command, result, bjvars>>

\* lines 72-74: deal_from_stock()
DealFromStock ==
    /\ pc = "solitaire"
    /\ IF stock # <<>>
       THEN /\ waste' = Append(waste, Last(stock))
            /\ stock' = DelLast(stock)
       ELSE UNCHANGED <<waste, stock>>
    /\ UNCHANGED <<tableau, columns, cards_in_column, command, result, bjvars>>

\* no BlackjackController exists
NoBlackjack ==
    /\ player_hand = NewHand
    /\ dealer_hand = NewHand
    /\ deck = NewDeck
    /\ won_calls = 0
    /\ lost_calls = 0
    /\ asks = 0
    /\ display = NoDisplay

\* lines 29-40: the Solitaire that __init__ leaves, for columns = c,
\* cards_in_column = n and the shuffled deck d
Constructed(d, c, n) ==
    /\ columns = c
    /\ cards_in_column = n
    /\ tableau = SetupTableau(d, c, n)
    /\ waste = SetupWaste(d, c, n)
    /\ stock = SetupStock(d, c, n)
    /\ command = ""
    /\ result = "none"

InitSolitaire ==
    /\ pc = "solitaire"
    /\ NoBlackjack
    /\ \E cfg \in Configs, s \in 1..NumStrides, cut \in 0..(NumCuts - 1) :
         Constructed(ShuffledDeck(Strides[s], cut), cfg[1], cfg[2])

NextSolitaire ==
    \/ DealFromStock
    \/ \E col \in 0..(columns - 1) : MoveCard(col)

SpecSolitaire == InitSolitaire /\ [][NextSolitaire]_vars

(***************************************************************************)
(* Solitaire: the setup for many configurations, followed by deals.        *)
(***************************************************************************)
\* the configurations that leave a card for the waste
SetupConfigs ==
    {cfg \in (0..MaxColumns) \X (0..MaxCardsInColumn) : cfg[1] * cfg[2] <= StockBase}

InitSetup ==
    /\ pc = "solitaire"
    /\ NoBlackjack
    /\ \E cfg \in SetupConfigs, s \in 1..NumStrides, cut \in 0..(NumCuts - 1) :
         Constructed(ShuffledDeck(Strides[s], cut), cfg[1], cfg[2])

NextSetup == DealFromStock

SpecSetup == InitSetup /\ [][NextSetup]_vars

(***************************************************************************)
(* Solitaire: the turn loop Solitaire.play, one action per command read.   *)
(***************************************************************************)
\* the values of Solitaire.columns and Solitaire.cards_in_column played
PlayConfigs == Configs

\* the numbers typed as commands: the columns, and one number on each side
Numbers == (-1)..columns

\* a column command that moves whatever card the column shows
MoveAllowedUnchecked(col) == Len(tableau[col + 1]) > 0

\* line 159
MoveAllowed(col) == Len(tableau[col + 1]) > 0 /\ can_move(Last(tableau[col + 1]))

\* the two tests in the other order
VerdictLossFirst ==
    IF has_lost = "True" THEN "You have lost!"
    ELSE IF has_won THEN "You have won!"
    ELSE "none"

\* a loop that never tests for the loss
VerdictWinOnly == IF has_won THEN "You have won!" ELSE "none"

\* lines 163-166: what play returns after a command, "none" to go on
Verdict ==
    IF has_won THEN "You have won!"
    ELSE IF has_lost = "True" THEN "You have lost!"
    ELSE "none"

\* lines 152-153
PlayQuit ==
    /\ pc = "play"
    /\ result = "none"
    /\ command' = "q"
    /\ result' = "You quit!"
    /\ UNCHANGED <<tableau, waste, stock, columns, cards_in_column, bjvars>>

\* lines 154-155, 163-166
PlayRules ==
    /\ pc = "play"
    /\ result = "none"
    /\ command' = "r"
    /\ UNCHANGED <<tableau, waste, stock, columns, cards_in_column, bjvars>>
    /\ result' = Verdict'

\* lines 156-157, 163-166
PlayDeal ==
    /\ pc = "play"
    /\ result = "none"
    /\ command' = "d"
    /\ IF stock # <<>>
       THEN /\ waste' = Append(waste, Last(stock))
            /\ stock' = DelLast(stock)
       ELSE UNCHANGED <<waste, stock>>
    /\ UNCHANGED <<tableau, columns, cards_in_column, bjvars>>
    /\ result' = Verdict'

\* lines 158-160, 163-166: the number of a column
PlayColumn(col) ==
    /\ pc = "play"
    /\ result = "none"
    /\ col \in 0..(columns - 1)
    /\ command' = ToString(col)
    /\ IF MoveAllowed(col)
       THEN /\ waste' = Append(waste, Last(tableau[col + 1]))
            /\ tableau' = [tableau EXCEPT ![col + 1] = DelLast(@)]
       ELSE UNCHANGED <<tableau, waste>>
    /\ UNCHANGED <<stock, columns, cards_in_column, bjvars>>
    /\ result' = Verdict'

\* lines 158, 161-166: a number that is no column
PlayOtherNumber(n) ==
    /\ pc = "play"
    /\ result = "none"
    /\ n \in Numbers
    /\ ~(0 <= n /\ n < columns)
    /\ command' = ToString(n)
    /\ UNCHANGED <<tableau, waste, stock, columns, cards_in_column, bjvars>>
    /\ result' = Verdict'

\* line 158: int(command) raises ValueError for a text that is no number,
\* and play ends with the exception
PlayNoNumber ==
    /\ pc = "play"
    /\ result = "none"
    /\ command' = "x"
    /\ result' = "ValueError"
    /\ UNCHANGED <<tableau, waste, stock, columns, cards_in_column, bjvars>>

InitPlay ==
    /\ pc = "play"
    /\ NoBlackjack
    /\ \E cfg \in PlayConfigs, s \in 1..Len(Strides), cut \in 0..(NumCuts - 1) :
         Constructed(ShuffledDeck(Strides[s], cut), cfg[1], cfg[2])

\* the commands of a player who neither quits nor types a text
NextPlayOn ==
    \/ PlayRules
    \/ PlayDeal
    \/ \E col \in 0..(columns - 1) : PlayColumn(col)
    \/ \E n \in Numbers : PlayOtherNumber(n)

NextPlay ==
    \/ PlayQuit
    \/ PlayNoNumber
    \/ NextPlayOn

SpecPlay == InitPlay /\ [][NextPlay]_vars

\* a command that changes the state: a deal while the stock holds a card,
\* a legal move once it is empty
PlayProgress ==
    \/ stock # <<>> /\ PlayDeal
    \/ stock = <<>> /\ \E col \in 0..(columns - 1) : MoveAllowed(col) /\ PlayColumn(col)

\* the sessions of a player who goes on playing and in the end always gives
\* a command that changes the state when there is one
SpecPlayOn == InitPlay /\ [][NextPlayOn]_vars /\ WF_vars(PlayProgress)

(***************************************************************************)
(* Properties of Hand.                                                     *)
(***************************************************************************)
RECURSIVE Fold(_, _)
\* the hand after adding the cards of s, in order, to hand
Fold(hand, s) == IF s = <<>> THEN hand ELSE Fold(add_card(hand, Head(s)), Tail(s))

RECURSIVE Nominal(_)
Nominal(s) == IF s = <<>> THEN 0 ELSE card_values[Head(s)] + Nominal(Tail(s))

NumAces(s) == Cardinality({i \in 1..Len(s) : s[i] = "ACE"})

\* N - 10*k for the least k in 0..aces with N - 10*k <= 21, or k = aces
RefScore(s) ==
    LET N == Nominal(s)
        fit == {k \in 0..NumAces(s) : N - 10 * k <= 21}
        k == IF fit = {} THEN NumAces(s)
             ELSE CHOOSE m \in fit : \A n \in fit : m <= n
    IN  N - 10 * k

\* the orders in which the cards of s can be added
Orders(s) ==
    {[i \in 1..Len(s) |-> s[p[i]]] :
        p \in {q \in [1..Len(s) -> 1..Len(s)] : \A i, j \in 1..Len(s) : q[i] = q[j] => i = j}}

\* C1: after every add_card, a hand has score <= 21 or no ace counted as 11
SoftAceInvariant ==
    \A h \in {player_hand, dealer_hand} : h.score <= 21 \/ h.aces = 0

\* a hand over 21 that holds an ace, which no longer counts as 11
SoftAceWitness ==
    /\ pc = "hand"
    /\ player_hand.score > 21
    /\ NumAces(player_hand.cards) > 0
    /\ player_hand.aces = 0

\* the place of a value in the list of values
Place(v) == CHOOSE i \in 1..Len(AllValues) : AllValues[i] = v

\* the cards of s in one fixed order, the same for every order of s
Sorted(s) == SortSeq(s, LAMBDA a, b : Place(a) < Place(b))

\* C7: the score is N - 10*k of the cards added, and it is the score of the
\* same cards added in their sorted order, so it depends on no order
ScoreIsReference ==
    LET s == player_hand.cards
    IN  /\ player_hand.score = RefScore(s)
        /\ Fold(NewHand, Sorted(s)).score = player_hand.score

\* two aces in the hand, one softened when it came and the other later
ScoreIsReferenceWitness ==
    /\ pc = "hand"
    /\ player_hand.cards = <<"ACE", "5", "ACE", "KING">>
    /\ player_hand.score = 17

\* C8: 10 and ace score 21; ace, ace and 9 score 21; in every order
ExampleHands ==
    /\ player_hand.cards \in Orders(<<"10", "ACE">>) => player_hand.score = 21
    /\ player_hand.cards \in Orders(<<"ACE", "ACE", "9">>) => player_hand.score = 21

ExampleHandsWitness ==
    /\ pc = "hand"
    /\ player_hand.cards = <<"ACE", "9", "ACE">>
    /\ player_hand.score = 21


(***************************************************************************)
(* Properties of BlackjackController.                                      *)
(***************************************************************************)
\* the player's hand as it was after the deal of the first four cards
DealtPlayerHand == Fold(NewHand, SubSeq(player_hand.cards, 1, 2))

\* C2: a round that has run to its end has called exactly one of
\* view.player_won and view.player_lost, once
VerdictExactlyOnce == pc = "done" => won_calls + lost_calls = 1

\* C4: a player 21 after the deal ends the round at once with player_won,
\* whatever the dealer holds: no question is asked and no card is drawn
ImmediateBlackjack ==
    (pc # "setup" /\ DealtPlayerHand.score = 21) =>
        /\ pc = "done"
        /\ won_calls = 1
        /\ lost_calls = 0
        /\ asks = 0
        /\ Len(player_hand.cards) = 2
        /\ Len(dealer_hand.cards) = 2

\* the player and the dealer were both dealt 21
ImmediateBlackjackWitness ==
    /\ pc = "done"
    /\ Len(player_hand.cards) = 2
    /\ player_hand.score = 21
    /\ dealer_hand.score = 21
    /\ won_calls = 1

\* C5: a player at 22 or more at the end of the turn loses whatever the
\* dealer holds, and the dealer draws no card
PlayerBust ==
    player_hand.score >= 22 =>
        /\ pc \in {"player_moves", "player_done", "done"}
        /\ pc = "done" => (lost_calls = 1 /\ won_calls = 0)
        /\ pc \in {"player_moves", "player_done"} => (lost_calls = 0 /\ won_calls = 0)
        /\ Len(dealer_hand.cards) <= 2

\* the player went over 21 against a weak dealer
PlayerBustWitness ==
    /\ pc = "done"
    /\ player_hand.score >= 22
    /\ dealer_hand.score < 17
    /\ lost_calls = 1

\* C6: at the end of the dealer's turn the player wins exactly when the
\* dealer's score is above 22; a dealer at exactly 22 makes the player lose
DealerBustThreshold ==
    [][(pc = "dealer_moves" /\ pc' = "done") =>
        /\ (won_calls' = won_calls + 1) <=> dealer_hand.score > 22
        /\ won_calls' \in {won_calls, won_calls + 1}
        /\ dealer_hand.score = 22 =>
              /\ player_hand.score < 21
              /\ lost_calls' = lost_calls + 1
              /\ won_calls' = won_calls]_vars

\* the dealer drew to exactly 22 and the player lost
DealerBustThresholdWitness ==
    /\ pc = "done"
    /\ dealer_hand.score = 22
    /\ Len(dealer_hand.cards) > 2
    /\ lost_calls = 1
    /\ won_calls = 0

\* C15: in the dealer's turn the dealer takes one card while below the
\* player's score and none otherwise, so the turn ends at or above it
DealerDrawsWhileBelow ==
    [][pc = "dealer_moves" =>
        IF dealer_hand.score < player_hand.score
        THEN /\ pc' = "dealer_moves"
             /\ Len(dealer_hand'.cards) = Len(dealer_hand.cards) + 1
             /\ SubSeq(dealer_hand'.cards, 1, Len(dealer_hand.cards)) = dealer_hand.cards
        ELSE /\ pc' = "done"
             /\ dealer_hand' = dealer_hand
             /\ dealer_hand.score >= player_hand.score]_vars

\* the dealer took two cards and stopped at or above the player
DealerDrawsWhileBelowWitness ==
    /\ pc = "done"
    /\ Len(dealer_hand.cards) = 4
    /\ player_hand.score < 21
    /\ dealer_hand.score >= player_hand.score
    /\ Fold(NewHand, SubSeq(dealer_hand.cards, 1, 3)).score < player_hand.score

\* C16: a move is asked for only below 21; a hit adds one card to the
\* player's hand and leaves the dealer's; a stand ends the turn; at 21 or
\* more the turn ends unasked; after the turn the player's hand is fixed
PlayerTurn ==
    [][/\ asks' # asks =>
            /\ asks' = asks + 1
            /\ pc = "player_moves"
            /\ player_hand.score < 21
            /\ dealer_hand' = dealer_hand
            /\ \/ /\ pc' = "player_done"
                  /\ player_hand' = player_hand
               \/ /\ pc' = "player_moves"
                  /\ Len(player_hand'.cards) = Len(player_hand.cards) + 1
                  /\ SubSeq(player_hand'.cards, 1, Len(player_hand.cards))
                        = player_hand.cards
       /\ (pc = "player_moves" /\ player_hand.score < 21) => asks' = asks + 1
       /\ (pc = "player_moves" /\ player_hand.score >= 21) =>
            /\ asks' = asks
            /\ pc' = "player_done"
            /\ player_hand' = player_hand
       /\ pc \in {"player_done", "dealer_moves", "done"} =>
            /\ asks' = asks
            /\ player_hand' = player_hand]_vars

\* two hits, then a stand below 21, and the round went on to its end
PlayerTurnWitness ==
    /\ pc = "done"
    /\ asks = 3
    /\ Len(player_hand.cards) = 4
    /\ player_hand.score < 21

\* the dealer's hand is as it was when the state was last shown
ShownDuringPlayerTurn == pc \in {"player_moves", "player_done"} /\ asks > 0

\* C18 as stated: a display that is not final hides every dealer card but
\* the last and the dealer's score; a final one shows all of them
DisplayShowsLastOnly ==
    /\ (ShownDuringPlayerTurn /\ ~display.final) =>
            /\ display.dealer_score = -1
            /\ Len(display.dealer_cards) = Len(dealer_hand.cards)
            /\ \A i \in 1..(Len(dealer_hand.cards) - 1) : display.dealer_cards[i] = "??"
            /\ Last(display.dealer_cards) = Last(dealer_hand.cards)
    /\ display.final =>
            /\ display.dealer_score = dealer_hand.score
            /\ display.dealer_cards = dealer_hand.cards

\* C18, amended: a display that is not final hides the last dealer card and
\* the dealer's score and shows the other dealer cards; a final one shows
\* all the dealer's cards and the dealer's score
DisplayHidesLastOnly ==
    /\ (ShownDuringPlayerTurn /\ ~display.final) =>
            /\ display.dealer_score = -1
            /\ Len(display.dealer_cards) = Len(dealer_hand.cards)
            /\ \A i \in 1..(Len(dealer_hand.cards) - 1) :
                    display.dealer_cards[i] = dealer_hand.cards[i]
            /\ Last(display.dealer_cards) = "??"
    /\ display.final =>
            /\ pc = "done"
            /\ display.dealer_score = dealer_hand.score
            /\ display.dealer_cards = dealer_hand.cards

\* the player was asked while the dealer held a King and a 9: King, ??
DisplayHidesLastOnlyWitness ==
    /\ pc = "player_moves"
    /\ asks > 0
    /\ dealer_hand.cards = <<"KING", "9">>
    /\ display.dealer_cards = <<"KING", "??">>
    /\ display.dealer_score = -1

(***************************************************************************)
(* Properties of Solitaire.                                                *)
(***************************************************************************)
RECURSIVE Flatten(_)
\* the cards of all the columns of t, column after column
Flatten(t) == IF t = <<>> THEN <<>> ELSE Head(t) \o Flatten(Tail(t))

\* every card held by the tableau, the waste and the stock
AllCards == Flatten(tableau) \o waste \o stock

\* C3: each of the 52 cards is in exactly one of the tableau columns, the
\* waste and the stock, so their sizes sum to 52
CardsConserved ==
    pc = "solitaire" =>
        LET all == AllCards
        IN  /\ Len(all) = 52
            /\ {all[i] : i \in 1..52} = FullDeck
            /\ Cardinality(FullDeck) = 52

\* cards have gone to the waste both from a column and from the stock
CardsConservedWitness ==
    /\ pc = "solitaire"
    /\ \E i \in 1..Len(tableau) : Len(tableau[i]) < cards_in_column
    /\ Len(stock) < StockBase - columns * cards_in_column
    /\ Len(waste) > 2

\* the last cards of the columns that hold a card
Exposed == {Last(tableau[i]) : i \in {j \in 1..Len(tableau) : tableau[j] # <<>>}}

\* the cards of the columns that lie under another card
Covered ==
    UNION {{tableau[i][j] : j \in 1..(Len(tableau[i]) - 1)} :
            i \in {j \in 1..Len(tableau) : tableau[j] # <<>>}}

\* ranks next to each other, Ace (1) and King (13) being far apart
Adjacent(r1, r2) == r1 = r2 + 1 \/ r2 = r1 + 1

\* C9: can_move(card) holds exactly for an exposed card whose rank is next to
\* the rank of the top of the waste, Ace and King not being next to each other;
\* a covered card is never movable
CanMoveIsExposedAndAdjacent ==
    pc = "solitaire" =>
        LET exposed == Exposed
            top == Last(waste).rank
        IN  /\ \A card \in FullDeck :
                 can_move(card) <=> (card \in exposed /\ Adjacent(card.rank, top))
            /\ \A card \in Covered : ~can_move(card)
            /\ \A card \in exposed :
                 /\ {card.rank, top} = {1, 13} => ~can_move(card)
                 /\ (top = 7 /\ card.rank \in {6, 8}) => can_move(card)
                 /\ (top = 7 /\ card.rank = 2) => ~can_move(card)

\* an exposed King on an Ace, with a covered card that is next to the Ace
CanMoveWitness ==
    /\ pc = "solitaire"
    /\ Last(waste).rank = 1
    /\ \E card \in Exposed : card.rank = 13 /\ ~can_move(card)
    /\ \E card \in Covered : card.rank = 2 /\ ~can_move(card)

\* no column shows a card that is next to the top of the waste
NoLegalMove == \A card \in Exposed : ~Adjacent(card.rank, Last(waste).rank)

\* C10: has_lost() is true exactly when the stock is empty and no exposed
\* card can move, and it returns False whenever the stock holds a card
HasLostIsStuck ==
    pc = "solitaire" =>
        /\ has_lost = "True" <=> (stock = <<>> /\ NoLegalMove)
        /\ stock # <<>> => has_lost = "False"


\* C12: deal_from_stock() on a stock that holds a card moves its last card
\* to the end of the waste and changes nothing else; on an empty stock it
\* changes nothing
DealMovesLastStockCard ==
    /\ [][tableau' = tableau =>
            /\ stock # <<>>
            /\ waste' = waste \o <<stock[Len(stock)]>>
            /\ stock' = SubSeq(stock, 1, Len(stock) - 1)
            /\ UNCHANGED <<columns, cards_in_column>>]_vars
    /\ [](stock = <<>> => ~ENABLED <<DealFromStock>>_vars)
    /\ [](stock # <<>> => ENABLED <<DealFromStock>>_vars)

\* the whole stock has been dealt, and another deal changes nothing
DealMovesLastStockCardWitness ==
    /\ pc = "solitaire"
    /\ stock = <<>>
    /\ Len(waste) = 1 + StockBase - columns * cards_in_column
    /\ ~ENABLED <<DealFromStock>>_vars

\* C13: setup leaves `columns` columns of `cards_in_column` cards, one card
\* on the waste and the other 51 - columns * cards_in_column cards in the
\* stock, 52 cards in all (7 columns of 5: a stock of 16); the configuration
\* stays as it is
SetupShape ==
    /\ Len(tableau) = columns
    /\ \A i \in 1..Len(tableau) : Len(tableau[i]) = cards_in_column
    /\ Len(waste) = 1
    /\ Len(stock) = 51 - columns * cards_in_column
    /\ Len(AllCards) = 52
    /\ (columns = 7 /\ cards_in_column = 5) => Len(stock) = 16
    /\ [][UNCHANGED <<columns, cards_in_column>>]_vars

\* 7 columns of 5 cards right after setup
SetupShapeWitness ==
    /\ pc = "solitaire"
    /\ columns = 7
    /\ cards_in_column = 5
    /\ Len(tableau) = 7
    /\ Len(waste) = 1
    /\ Len(stock) = 16

\* C14: has_won() holds exactly when every column is empty, whatever the
\* waste and the stock hold
HasWonIsTableauEmpty ==
    pc = "solitaire" =>
        /\ has_won <=> Flatten(tableau) = <<>>
        /\ has_won <=> Len(waste) + Len(stock) = 52

\* both columns are empty while the stock still holds cards
HasWonIsTableauEmptyWitness ==
    /\ pc = "solitaire"
    /\ columns = 2
    /\ has_won
    /\ stock # <<>>

(***************************************************************************)
(* Properties of the turn loop.                                            *)
(***************************************************************************)
\* the columns a step of the loop took a card from
ColumnsShortened == {i \in 1..Len(tableau) : tableau'[i] # tableau[i]}

\* C11: a column command for an empty column, or for one whose exposed card
\* is not movable, changes neither the tableau, the waste nor the stock, and
\* the loop goes on without an error; a step changes the tableau only for the
\* command of a non-empty column whose exposed card can move, so the card it
\* puts on the waste is next in rank to the former top of the waste
IllegalMoveIgnored ==
    /\ [][\A col \in 0..(columns - 1) :
            (/\ result = "none"
             /\ command' = ToString(col)
             /\ ~(Len(tableau[col + 1]) > 0 /\ can_move(Last(tableau[col + 1]))))
            => /\ UNCHANGED <<tableau, waste, stock>>
               /\ result' = "none"]_vars
    /\ [][tableau' # tableau =>
            \E col \in 0..(columns - 1) :
                /\ command' = ToString(col)
                /\ Len(tableau[col + 1]) > 0
                /\ can_move(Last(tableau[col + 1]))
                /\ ColumnsShortened = {col + 1}
                /\ waste' = Append(waste, Last(tableau[col + 1]))
                /\ Adjacent(Last(waste').rank, Last(waste).rank)
                /\ stock' = stock]_vars

\* column 0 was asked for before any card had moved, its card not being
\* next to the waste, and the loop waits for the next command
IllegalMoveIgnoredWitness ==
    /\ pc = "play"
    /\ command = "0"
    /\ result = "none"
    /\ Len(waste) = 1
    /\ Len(tableau[1]) = cards_in_column
    /\ ~Adjacent(Last(tableau[1]).rank, Last(waste).rank)

\* C17: after every command but quit the loop ends with the won verdict if
\* the tableau is empty, else with the lost verdict if has_lost() holds, else
\* goes on; an empty tableau with an empty stock is won, and the loop never
\* waits for a command where has_won() or has_lost() holds
TerminalCheck ==
    /\ [][(result = "none" /\ command' \notin {"q", "x"}) =>
            result' = IF has_won' THEN "You have won!"
                      ELSE IF has_lost' = "True" THEN "You have lost!"
                      ELSE "none"]_vars
    /\ []((pc = "play" /\ Flatten(tableau) = <<>> /\ stock = <<>>)
            => result = "You have won!")
    /\ []((pc = "play" /\ result = "none") => (~has_won /\ has_lost # "True"))

\* the last card left the tableau after the stock had run out
TerminalCheckWitness ==
    /\ pc = "play"
    /\ result = "You have won!"
    /\ stock = <<>>
    /\ command \notin {"q", "x", "d", "r"}

\* C19: a step that changes the piles adds exactly one card to the waste and
\* takes one from the stock or from one column, no pile ever moves the other
\* way, so at most 51 commands change the state; and a session whose player
\* in the end always gives a state-changing command when there is one ends
\* with the won or the lost verdict
ProgressAndTermination ==
    /\ [][<<tableau, waste, stock>>' # <<tableau, waste, stock>> =>
            /\ Len(waste') = Len(waste) + 1
            /\ \/ Len(stock') = Len(stock) - 1 /\ tableau' = tableau
               \/ /\ stock' = stock
                  /\ Len(Flatten(tableau')) = Len(Flatten(tableau)) - 1
                  /\ \A i \in 1..Len(tableau) : Len(tableau'[i]) <= Len(tableau[i])]_vars
    /\ [](pc = "play" => Len(waste) - 1 <= StockBase)
    /\ <>(result \in {"You have won!", "You have lost!"})

\* a session that dealt the whole stock, moved a card and was then lost
ProgressAndTerminationWitness ==
    /\ pc = "play"
    /\ result = "You have lost!"
    /\ stock = <<>>
    /\ Len(Flatten(tableau)) < columns * cards_in_column

\* C20: the waste holds at least one card in every state reached from setup
\* by deal_from_stock() and move_card(), so the top of the waste that
\* can_move and has_lost read is always there
WasteNeverEmpty == pc = "solitaire" => Len(waste) >= 1

\* every card but the first of the waste came from the stock and the tableau
WasteNeverEmptyWitness ==
    /\ pc = "solitaire"
    /\ stock = <<>>
    /\ Flatten(tableau) = <<>>
    /\ Len(waste) = DeckSize

====
